---------------------------- MODULE Spec2Model ----------------------------
(***************************************************************************)
(* csvcatalog: the catalog storage engine.                                 *)
(*                                                                         *)
(* Names (of tables and columns) are sequences of one-character strings,   *)
(* so that the identifier sanitizer is computed character by character as  *)
(* the code computes it.  The engine state is the SQLite database behind   *)
(* Storage's single connection: the tables as the connection sees them     *)
(* and the tables as of the last commit.                                   *)
(***************************************************************************)
EXTENDS Integers, Sequences, FiniteSets, TLC

VARIABLES
    tables,     \* the user tables as the connection sees them: stored name -> [cols, rows]
    committed,  \* the user tables as of the last commit (what is on disk)
    okRows,     \* history: stored name -> rows inserted by save calls that succeeded
    last,       \* the last call: [op, name, arg, result]
    catalog,    \* the metadata catalog: name -> [columns, count, created_at, description]
    clock,      \* the current time, as the catalog's created-at stamps read it
    san,        \* the sanitizer under test: [phase, input, out, again]
    shown,      \* what the last search or sql command reported
    session,    \* the encrypted session: the file at db_path, the working copy, the phase
    given,      \* history: the names given to create_table calls that succeeded
    extract,    \* the extract command: the rows of the file, the batch, the calls of save
    terminal,   \* the terminal loop: its flags, where it stands, the time
    store       \* the settings and the store files: db_path, encryption, the file at each path

vars == <<tables, committed, okRows, last, catalog, clock, san, shown, session, given, extract, terminal, store>>

------------------------------------------------------------------------------
(* Bounds *)

\* longest input string given to the sanitizer
MaxLen == 3
\* most rows the store holds, over all its tables
MaxRows == 2
\* latest time the clock reaches
MaxClock == 1

------------------------------------------------------------------------------
(* Characters *)

LowerSeq == << "a","b","c","d","e","f","g","h","i","j","k","l","m",
               "n","o","p","q","r","s","t","u","v","w","x","y","z" >>

UpperSeq == << "A","B","C","D","E","F","G","H","I","J","K","L","M",
               "N","O","P","Q","R","S","T","U","V","W","X","Y","Z" >>

Digits == {"0","1","2","3","4","5","6","7","8","9"}

AsciiLetters == {LowerSeq[i] : i \in 1..26} \cup {UpperSeq[i] : i \in 1..26}

\* a letter outside ASCII ("e" with an acute accent), which Python counts as
\* an identifier character
EAcute == "e-acute"

OtherLetters == {EAcute}

\* str.isidentifier() of a one-character string: a letter or "_", never a digit
CharIsIdentifier(c) == c \in AsciiLetters \cup OtherLetters \cup {"_"}

\* str.isidentifier() of a whole string: non-empty, starts with a letter or
\* "_", continues with letters, digits and "_"
StrIsIdentifier(s) ==
    /\ Len(s) > 0
    /\ CharIsIdentifier(s[1])
    /\ \A i \in 1..Len(s) : CharIsIdentifier(s[i]) \/ s[i] \in Digits

\* the safe pattern ^[A-Za-z_][A-Za-z0-9_]*$
MatchesSafePattern(s) ==
    /\ Len(s) > 0
    /\ s[1] \in AsciiLetters \cup {"_"}
    /\ \A i \in 1..Len(s) : s[i] \in AsciiLetters \cup Digits \cup {"_"}

\* ASCII case folding, as SQLite compares table names and LIKE compares text
LowerOf == [c \in {UpperSeq[i] : i \in 1..26} |->
               LowerSeq[CHOOSE i \in 1..26 : UpperSeq[i] = c]]

ToLower(c) == IF c \in DOMAIN LowerOf THEN LowerOf[c] ELSE c

Fold(s) == [i \in 1..Len(s) |-> ToLower(s[i])]

------------------------------------------------------------------------------
(* Identifier sanitizer *)

\* what the sanitizer yields when it raises ValueError: a value no name equals
Invalid == <<"ValueError">>

ValueError == "ValueError"

\* "".join(c for c in name if c.isidentifier())
KeepIdentifierChars(s) == SelectSeq(s, CharIsIdentifier)

RECURSIVE LStrip(_)
\* str.lstrip("_")
LStrip(s) ==
    IF Len(s) > 0 /\ s[1] = "_" THEN LStrip(Tail(s)) ELSE s

\* Storage._validate_identifier: the cleaned name, or ValueError
validate_identifier(name) ==
    LET cleaned == LStrip(KeepIdentifierChars(name))
    IN  IF cleaned = << >> \/ ~StrIsIdentifier(cleaned) THEN Invalid ELSE cleaned

\* storage.sanitize_identifier, the sanitizer of the command layer: a safe
\* name unchanged; otherwise every character outside [A-Za-z0-9_] replaced by
\* "_", and "_" prefixed when the result starts with a digit or is empty
sanitize_identifier(s) ==
    IF MatchesSafePattern(s) THEN s
    ELSE LET r == [i \in 1..Len(s) |->
                      IF s[i] \in AsciiLetters \cup Digits \cup {"_"}
                      THEN s[i] ELSE "_"]
         IN  IF r = << >> \/ r[1] \in Digits THEN <<"_">> \o r ELSE r


------------------------------------------------------------------------------
(* The SQLite engine behind the connection *)

A == <<"a">>
B == <<"b">>

\* SQL NULL, and a Python value sqlite3 cannot bind (a list, a dict)
NULL == "<null>"
Unbindable == "<unbindable>"

OperationalError == "OperationalError"
ProgrammingError == "ProgrammingError"
Ok == "ok"

Range(s) == {s[i] : i \in 1..Len(s)}

\* SQLite resolves a table name without regard to ASCII case
Lookup(db, n) == {m \in DOMAIN db : Fold(m) = Fold(n)}

TableExists(db, n) == Lookup(db, n) # {}

StoredName(db, n) == CHOOSE m \in Lookup(db, n) : TRUE

\* names SQLite keeps for itself: CREATE TABLE "sqlite_..." is refused
IsReservedName(n) ==
    /\ Len(n) >= 7
    /\ Fold(SubSeq(n, 1, 7)) = <<"s","q","l","i","t","e","_">>

\* name LIKE 'sqlite_%': LIKE folds ASCII case, "_" stands for any one
\* character and "%" for any run of characters
LikeSqlitePattern(n) ==
    /\ Len(n) >= 7
    /\ Fold(SubSeq(n, 1, 6)) = <<"s","q","l","i","t","e">>

\* SELECT name FROM sqlite_master WHERE type='table' AND name NOT LIKE 'sqlite_%'
ListedNames(db) == {m \in DOMAIN db : ~LikeSqlitePattern(m)}

HasDuplicates(cols) ==
    \E i, j \in 1..Len(cols) : i # j /\ Fold(cols[i]) = Fold(cols[j])

Without(db, m) == [k \in DOMAIN db \ {m} |-> db[k]]

\* Storage.create_table up to its commit: [result, db]
create_table(db, name, columns) ==
    LET safe_name == validate_identifier(name)
        safe_columns == [i \in 1..Len(columns) |-> validate_identifier(columns[i])]
    IN  IF safe_name = Invalid \/ Invalid \in Range(safe_columns)
        THEN [result |-> ValueError, db |-> db]
        ELSE IF TableExists(db, safe_name)
        THEN [result |-> Ok, db |-> db]             \* IF NOT EXISTS
        ELSE IF \/ IsReservedName(safe_name)
                \/ safe_columns = << >>
                \/ HasDuplicates(safe_columns)
        THEN [result |-> OperationalError, db |-> db]
        ELSE [result |-> Ok,
              db |-> db @@ (safe_name :> [cols |-> safe_columns, rows |-> << >>])]

\* a slip: a table that still holds rows is not dropped
delete_table_only_empty(db, name) ==
    LET safe_name == validate_identifier(name)
    IN  IF safe_name = Invalid
        THEN [result |-> ValueError, db |-> db]
        ELSE IF TableExists(db, safe_name) /\ db[StoredName(db, safe_name)].rows = << >>
        THEN [result |-> Ok, db |-> Without(db, StoredName(db, safe_name))]
        ELSE [result |-> Ok, db |-> db]

\* Storage.delete_table up to its commit: [result, db]
delete_table(db, name) ==
    LET safe_name == validate_identifier(name)
    IN  IF safe_name = Invalid
        THEN [result |-> ValueError, db |-> db]
        ELSE IF TableExists(db, safe_name)
        THEN [result |-> Ok, db |-> Without(db, StoredName(db, safe_name))]
        ELSE [result |-> Ok, db |-> db]             \* IF EXISTS

\* a slip: COUNT over the last column, which skips its NULLs
CountRows_last_column(t) ==
    Cardinality({i \in 1..Len(t.rows) : t.rows[i][t.cols[Len(t.cols)]] # NULL})

\* SELECT COUNT(*) FROM the table
CountRows(t) == Len(t.rows)

\* the Table record get_tables builds for one listed name; the PRAGMA and the
\* COUNT run on the validated name
TableOf(db, name) ==
    LET safe_name == validate_identifier(name)
    IN  [name |-> name,
         columns |-> db[StoredName(db, safe_name)].cols,
         count |-> CountRows(db[StoredName(db, safe_name)])]

\* get_tables raises when a listed name does not validate (ValueError) or
\* validates to a name that is no table (the COUNT fails)
GetTablesRaises(db) ==
    \E m \in ListedNames(db) :
        \/ validate_identifier(m) = Invalid
        \/ ~TableExists(db, validate_identifier(m))

\* Storage.get_tables when it does not raise: the Table records (the listing
\* order is the engine's)
get_tables(db) == {TableOf(db, m) : m \in ListedNames(db)}

\* None
NotFound == [none |-> TRUE]

\* next((t for t in self.get_tables() if t.name == name), None)
get_table(db, name) ==
    IF \E t \in get_tables(db) : t.name = name
    THEN CHOOSE t \in get_tables(db) : t.name = name
    ELSE NotFound

TableNames(db) == {t.name : t \in get_tables(db)}

RECURSIVE DeleteAll(_, _)
\* for table in tables: self.delete_table(table.name)
DeleteAll(db, names) ==
    IF names = {} THEN [result |-> Ok, db |-> db]
    ELSE LET n == CHOOSE n \in names : TRUE
             o == delete_table(db, n)
         IN  IF o.result # Ok THEN o ELSE DeleteAll(o.db, names \ {n})

\* a slip: the loop leaves one listed table out
purge_database_skip_one(db) ==
    IF GetTablesRaises(db) THEN [result |-> OperationalError, db |-> db]
    ELSE IF TableNames(db) = {} THEN [result |-> Ok, db |-> db]
    ELSE DeleteAll(db, TableNames(db) \ {CHOOSE n \in TableNames(db) : TRUE})

\* Storage.purge_database: [result, db]
purge_database(db) ==
    IF GetTablesRaises(db) THEN [result |-> OperationalError, db |-> db]
    ELSE DeleteAll(db, TableNames(db))

\* the record INSERT INTO table (safe_columns) VALUES (?, ...) stores for one
\* row of the batch: row.get(c, None) for the columns of the statement, NULL
\* for the table's other columns
InsertedRow(t, columns, row) ==
    [c \in Range(t.cols) |->
        LET rs == {r \in columns : Fold(validate_identifier(r)) = Fold(c)}
        IN  IF rs = {} THEN NULL
            ELSE LET r == CHOOSE r \in rs : TRUE
                 IN  IF r \in DOMAIN row THEN row[r] ELSE NULL]

\* sqlite3 binds the row's tuple: every value must be of a supported type
RowBinds(columns, row) ==
    \A r \in columns \cap DOMAIN row : row[r] # Unbindable

\* executemany: the rows before the first one that does not bind are inserted
BoundPrefix(columns, data) ==
    IF \A i \in 1..Len(data) : RowBinds(columns, data[i]) THEN Len(data)
    ELSE (CHOOSE i \in 1..Len(data) :
              /\ ~RowBinds(columns, data[i])
              /\ \A j \in 1..(i - 1) : RowBinds(columns, data[j])) - 1

\* Storage.save up to its commit: [result, db, commit]
save(db, table, data) ==
    IF data = << >> THEN [result |-> Ok, db |-> db, commit |-> FALSE]
    ELSE
    LET safe_table == validate_identifier(table)
        columns == DOMAIN data[1]                   \* list(data[0].keys())
        safe_columns == {validate_identifier(c) : c \in columns}
    IN  IF safe_table = Invalid \/ Invalid \in safe_columns
        THEN [result |-> ValueError, db |-> db, commit |-> FALSE]
        ELSE IF \/ ~TableExists(db, safe_table)
                \/ columns = {}
                \/ \E c \in safe_columns :
                       Fold(c) \notin {Fold(d) : d \in Range(db[StoredName(db, safe_table)].cols)}
        THEN [result |-> OperationalError, db |-> db, commit |-> FALSE]
        ELSE LET m == StoredName(db, safe_table)
                 k == BoundPrefix(columns, data)
                 new == [i \in 1..k |-> InsertedRow(db[m], columns, data[i])]
                 db2 == [db EXCEPT ![m].rows = @ \o new]
             IN  IF k = Len(data)
                 THEN [result |-> Ok, db |-> db2, commit |-> TRUE]
                 ELSE [result |-> ProgrammingError, db |-> db2, commit |-> FALSE]

------------------------------------------------------------------------------
(* Inputs *)

NameT == <<"t">>
NameU == <<"u">>
NameT1 == <<"t", "1">>
NameSqlitex == <<"s","q","l","i","t","e","x">>
NameDigit == <<"1">>

RawNames == {NameT, NameT1, NameU, NameSqlitex, NameDigit}

ColLists == {<<A, B>>}

\* the batches given to save: a one-row batch; a first row without "b"
\* before a row with it; a row without "b" after a row with it; a row whose
\* value cannot be bound after a row that can; the empty batch
Batches ==
    { << (A :> "x") >>,
      << (A :> "x"), (A :> "x") @@ (B :> "y") >>,
      << (A :> "x") @@ (B :> "y"), (A :> "x") >>,
      << (A :> "x"), (A :> Unbindable) >>,
      << >> }

------------------------------------------------------------------------------
(* The storage operations as steps of one session *)

Call(op, name, arg, result) ==
    [op |-> op, name |-> name, arg |-> arg, result |-> result]

\* the history of successful saves follows the tables: a new table starts at
\* 0, a dropped table is forgotten
OkRowsAfter(db, m, n) ==
    [k \in DOMAIN db |->
        (IF k \in DOMAIN okRows THEN okRows[k] ELSE 0) + (IF k = m THEN n ELSE 0)]

MetaUnchanged == UNCHANGED <<catalog, clock, san, shown, session, given, extract, terminal, store>>

\* Storage.create_table on the store
CreateTableStep(name, columns) ==
    LET o == create_table(tables, name, columns)
    IN  /\ tables' = o.db
        /\ committed' = IF o.result = Ok THEN o.db ELSE committed
        /\ okRows' = OkRowsAfter(o.db, << >>, 0)
        /\ last' = Call("create_table", name, << >>, o.result)

\* Storage.create_table, with the name and the columns drawn from the sets given
CreateTableIn(Names, Columns) ==
    \E name \in Names, columns \in Columns :
        CreateTableStep(name, columns) /\ MetaUnchanged

CreateTable == CreateTableIn(RawNames, ColLists)

\* Storage.delete_table on the store
DeleteTableStep(name) ==
    LET o == delete_table(tables, name)
    IN  /\ tables' = o.db
        /\ committed' = IF o.result = Ok THEN o.db ELSE committed
        /\ okRows' = OkRowsAfter(o.db, << >>, 0)
        /\ last' = Call("delete_table", name, << >>, o.result)

DeleteTable == \E name \in RawNames : DeleteTableStep(name) /\ MetaUnchanged

Abort == "Abort"

\* DeleteCommand.execute: the table is looked up first, the user confirms,
\* then the table is deleted
DeleteCommand ==
    \E table_name \in RawNames, confirm \in BOOLEAN :
        IF get_table(tables, table_name) = NotFound \/ ~confirm
        THEN /\ last' = Call("delete", table_name, << >>, Abort)
             /\ UNCHANGED <<tables, committed, okRows>>
             /\ MetaUnchanged
        ELSE LET o == delete_table(tables, table_name)
             IN  /\ tables' = o.db
                 /\ committed' = IF o.result = Ok THEN o.db ELSE committed
                 /\ okRows' = OkRowsAfter(o.db, << >>, 0)
                 /\ last' = Call("delete", table_name, << >>, o.result)
                 /\ MetaUnchanged

RECURSIVE SeqOf(_)
\* a set of names as a list
SeqOf(S) ==
    IF S = {} THEN << >>
    ELSE LET n == CHOOSE n \in S : TRUE IN <<n>> \o SeqOf(S \ {n})

\* the call records the names of the listing the purge went through
PurgeDatabase ==
    LET o == purge_database(tables)
    IN  /\ tables' = o.db
        /\ committed' = IF o.result = Ok /\ TableNames(tables) # {}
                        THEN o.db ELSE committed
        /\ okRows' = OkRowsAfter(o.db, << >>, 0)
        /\ last' = Call("purge", << >>, SeqOf(TableNames(tables)), o.result)
        /\ MetaUnchanged

RECURSIVE TotalRows(_)
TotalRows(db) ==
    IF DOMAIN db = {} THEN 0
    ELSE LET m == CHOOSE m \in DOMAIN db : TRUE
         IN  Len(db[m].rows) + TotalRows(Without(db, m))

\* the rows the store holds stay within MaxRows
RoomFor(db, data) == TotalRows(db) + Len(data) <= MaxRows

\* Storage.save, with the table and the batch drawn from the sets given
SaveIn(Names, Data) ==
    \E name \in Names, data \in Data :
        /\ RoomFor(tables, data)
        /\ LET o == save(tables, name, data)
               m == IF o.result = Ok /\ data # << >>
                    THEN StoredName(tables, validate_identifier(name)) ELSE << >>
           IN  /\ tables' = o.db
               /\ committed' = IF o.commit THEN o.db ELSE committed
               /\ okRows' = OkRowsAfter(o.db, m, Len(data))
               /\ last' = Call("save", name, data, o.result)
               /\ MetaUnchanged

Save == SaveIn(RawNames, Batches)

NoCall == Call("none", << >>, << >>, Ok)

Idle == [phase |-> "idle", input |-> << >>, out |-> << >>, again |-> << >>]

\* nothing reported yet
NothingShown ==
    [op |-> "none", results |-> << >>, total |-> 0, errors |-> << >>, message |-> ""]

\* no session: no file at db_path, no working copy
NoSession ==
    [phase |-> "closed", exists |-> FALSE, file |-> << >>,
     temp_exists |-> FALSE, temp |-> << >>, password |-> "", error |-> "",
     command_error |-> FALSE, pending |-> << >>,
     conn |-> "none", todo |-> << >>,
     before |-> [exists |-> FALSE, file |-> << >>],
     closed |-> [ok |-> FALSE, temp |-> << >>, password |-> ""]]

\* no extraction yet
NoExtract ==
    [phase |-> "idle", rows |-> << >>, i |-> 1, column_map |-> << >>,
     filters |-> << >>, batch |-> << >>, calls |-> << >>, total_saved |-> 0,
     filtered_out_count |-> 0]

\* the paths a store file is kept at: the default one, two the user names
DefaultPath == "catalog.db"
PathOne == "one.db"
PathTwo == "two.db"
StorePaths == {DefaultPath, PathOne, PathTwo}

NoFile == [exists |-> FALSE, data |-> << >>]

\* Settings(): no db_path, encryption off; no file anywhere. decrypt_input
\* is what the latest command handed to the decrypt step, toggles how often
\* the encryption setting has been changed
NoStore ==
    [db_path |-> "", encryption |-> FALSE, files |-> [q \in StorePaths |-> NoFile],
     decrypt_input |-> "none", toggles |-> 0]

\* Terminal.__init__, and run about to start
NoTerminal ==
    [pc |-> "top", should_exit |-> FALSE, confirm_exit |-> FALSE,
     confirm_time |-> 0, now |-> 0, event |-> "none"]

Init ==
    /\ tables = << >>
    /\ committed = << >>
    /\ okRows = << >>
    /\ last = NoCall
    /\ catalog = << >>
    /\ clock = 0
    /\ san = Idle
    /\ shown = NothingShown
    /\ session = NoSession
    /\ store = NoStore
    /\ terminal = NoTerminal
    /\ extract = NoExtract
    /\ given = {}

Next == CreateTable \/ Save \/ DeleteTable \/ DeleteCommand \/ PurgeDatabase

Spec == Init /\ [][Next]_vars

------------------------------------------------------------------------------
(* Claims about the table lifecycle, under Spec *)

\* C1: in every reachable state the names get_tables lists are exactly the
\* user tables that exist in the engine.
C1_ListingMatchesEngine ==
    /\ ~GetTablesRaises(tables)
    /\ TableNames(tables) = DOMAIN tables

\* C2: the count get_tables and get_table report for a table is the number
\* of rows the table holds, and after a save that succeeded it is the number
\* of rows committed to the file.
C2_CountIsRowCount ==
    \A t \in get_tables(tables) :
        /\ t.name \in DOMAIN tables
        /\ t.count = Len(tables[t.name].rows)
        /\ get_table(tables, t.name).count = t.count
        /\ (last.op = "save" /\ last.result = Ok /\ last.arg # << >>)
               => t.count = Len(committed[t.name].rows)

\* a second save into the same table has just succeeded
C2_Witness ==
    /\ last.op = "save" /\ last.result = Ok /\ Len(last.arg) = 1
    /\ \E t \in get_tables(tables) : t.name = last.name /\ t.count = 2

\* C3: once delete_table(name) has returned, get_table(name) is not found
\* and name is not among the names of get_tables().
C3_DeletedIsGone ==
    (last.op \in {"delete_table", "delete"} /\ last.result = Ok)
        => /\ get_table(tables, last.name) = NotFound
           /\ last.name \notin TableNames(tables)

\* the delete command has dropped a table it had found, another table with
\* rows is still there
C3_Witness ==
    /\ last.op = "delete" /\ last.result = Ok
    /\ \E t \in get_tables(tables) : t.count > 0

Supplied(row, c) ==
    LET rs == {r \in DOMAIN row : validate_identifier(r) = c}
    IN  IF rs = {} THEN NULL ELSE row[CHOOSE r \in rs : TRUE]

\* C7: a save that succeeded has appended one record per row of the batch,
\* holding the row's value in every column the row supplies and NULL in the
\* others.
C7_RowsStoredAsGiven ==
    (last.op = "save" /\ last.result = Ok /\ last.arg # << >>)
        => LET t == tables[StoredName(tables, validate_identifier(last.name))]
               n == Len(last.arg)
               off == Len(t.rows) - n
           IN  /\ off >= 0
               /\ \A i \in 1..n : \A c \in Range(t.cols) :
                      t.rows[off + i][c] = Supplied(last.arg[i], c)

\* C8: the committed rows of every table are rows of save calls that
\* succeeded: no row of a failed save is ever persisted.
C8_NoPartialPersist ==
    \A m \in DOMAIN committed :
        /\ m \in DOMAIN okRows
        /\ Len(committed[m].rows) = okRows[m]

------------------------------------------------------------------------------
(* The sanitizer on its own: one input string, sanitized, then sanitized again *)

SanAlphabet == {"a", "Z", "1", "_", " ", EAcute}

\* "1bad name!"
BadName == <<"1","b","a","d"," ","n","a","m","e","!">>

SanInputs == UNION {[1..n -> SanAlphabet] : n \in 0..MaxLen} \cup {BadName}

InitSan ==
    /\ tables = << >>
    /\ committed = << >>
    /\ okRows = << >>
    /\ last = NoCall
    /\ catalog = << >>
    /\ clock = 0
    /\ shown = NothingShown
    /\ session = NoSession
    /\ store = NoStore
    /\ terminal = NoTerminal
    /\ extract = NoExtract
    /\ given = {}
    /\ \E s \in SanInputs :
           san = [phase |-> "input", input |-> s, out |-> << >>, again |-> << >>]

StorageUnchanged ==
    UNCHANGED <<tables, committed, okRows, last, catalog, clock, shown, session, given, extract, terminal, store>>

Sanitize ==
    /\ san.phase = "input"
    /\ san' = [san EXCEPT !.phase = "once",
                          !.out = validate_identifier(san.input)]
    /\ StorageUnchanged

Resanitize ==
    /\ san.phase = "once"
    /\ san.out # Invalid
    /\ san' = [san EXCEPT !.phase = "twice",
                          !.again = validate_identifier(san.out)]
    /\ StorageUnchanged

NextSan == Sanitize \/ Resanitize

SpecSan == InitSan /\ [][NextSan]_vars

\* C5: the sanitizer's result is the reference function's: a safe name
\* unchanged, otherwise unsafe characters replaced by "_" and "_" prefixed
\* to a leading digit or an empty result.
C5_SanitizerIsReference ==
    san.phase \in {"once", "twice"} => san.out = sanitize_identifier(san.input)

\* C6: sanitizing never fails, its result matches the safe pattern, and
\* sanitizing the result again leaves it unchanged.
C6_SanitizerTotalSafeIdempotent ==
    /\ san.phase \in {"once", "twice"}
           => (san.out # Invalid /\ MatchesSafePattern(san.out))
    /\ san.phase = "twice" => san.again = san.out

------------------------------------------------------------------------------
(* The metadata catalog and the lifecycle operations that keep it *)

CatalogRow(columns, count, created_at, description) ==
    [columns |-> columns, count |-> count,
     created_at |-> created_at, description |-> description]

\* catalog.register: the row for name inserted or replaced, with row count 0
\* and created-at the current time
register(cat, name, columns, now) ==
    [k \in DOMAIN cat \cup {name} |->
        IF k = name THEN CatalogRow(columns, 0, now, NULL) ELSE cat[k]]

\* catalog.unregister: a no-op when the row is absent
unregister(cat, name) == [k \in DOMAIN cat \ {name} |-> cat[k]]

\* catalog.get, which storage.get_table returns: the Table or None
catalog_get(cat, name) ==
    IF name \in DOMAIN cat
    THEN [name |-> name, columns |-> cat[name].columns, count |-> cat[name].count,
          created_at |-> cat[name].created_at, description |-> cat[name].description]
    ELSE NotFound

\* catalog.set_row_count and catalog.set_description: no-ops when the row is absent
set_row_count(cat, name, count) ==
    IF name \in DOMAIN cat THEN [cat EXCEPT ![name].count = count] ELSE cat

set_description(cat, name, text) ==
    IF name \in DOMAIN cat THEN [cat EXCEPT ![name].description = text] ELSE cat

NameConflict == "NameConflict"

\* storage.rename_table: NameConflict when the destination is in the
\* catalog; otherwise the engine's table and the catalog row are renamed
rename_table(db, cat, old_name, new_name) ==
    IF new_name \in DOMAIN cat
    THEN [result |-> NameConflict, db |-> db, cat |-> cat]
    ELSE IF ~TableExists(db, old_name) \/ TableExists(db, new_name)
    THEN [result |-> OperationalError, db |-> db, cat |-> cat]
    ELSE [result |-> Ok,
          db |-> Without(db, StoredName(db, old_name))
                     @@ (new_name :> db[StoredName(db, old_name)]),
          cat |-> IF old_name \in DOMAIN cat
                  THEN unregister(cat, old_name) @@ (new_name :> cat[old_name])
                  ELSE cat]

NotChanged == "not changed"

\* a slip: the destination is not looked up before the rename
edit_name_unchecked(db, cat, table_name, new_name_raw) ==
    IF new_name_raw = << >> \/ new_name_raw = table_name
    THEN [result |-> NotChanged, db |-> db, cat |-> cat]
    ELSE rename_table(db, cat, table_name, sanitize_identifier(new_name_raw))

\* TablesEditCommand._edit_name for the table table_name and the name the
\* user types: [result, db, cat]
edit_name(db, cat, table_name, new_name_raw) ==
    IF new_name_raw = << >> \/ new_name_raw = table_name
    THEN [result |-> NotChanged, db |-> db, cat |-> cat]
    ELSE LET new_name == sanitize_identifier(new_name_raw)
         IN  IF catalog_get(cat, new_name) # NotFound
             THEN [result |-> Abort, db |-> db, cat |-> cat]
             ELSE rename_table(db, cat, table_name, new_name)

MetaNames == {NameT, NameU}

NewNames == {NameT, NameU, << >>}

MetaColLists == {<<A>>}

MetaBatches == { << (A :> "x") >> }

Descriptions == {"d"}

\* create_table of the lifecycle manager: Storage.create_table, then
\* catalog.register of the sanitized name
MCreateTable ==
    \E name \in MetaNames, columns \in MetaColLists :
        LET o == create_table(tables, name, columns)
        IN  /\ tables' = o.db
            /\ committed' = IF o.result = Ok THEN o.db ELSE committed
            /\ okRows' = OkRowsAfter(o.db, << >>, 0)
            /\ catalog' = IF o.result = Ok
                          THEN register(catalog, validate_identifier(name),
                                        columns, clock)
                          ELSE catalog
            /\ last' = Call("create_table", name, columns, o.result)
            /\ UNCHANGED <<clock, san, shown, session, given, extract, terminal, store>>

\* save of the lifecycle manager: Storage.save, then the recount persisted
\* through the catalog
MSave ==
    \E name \in MetaNames, data \in MetaBatches :
        /\ RoomFor(tables, data)
        /\ LET o == save(tables, name, data)
               m == validate_identifier(name)
           IN  /\ tables' = o.db
               /\ committed' = IF o.commit THEN o.db ELSE committed
               /\ okRows' = OkRowsAfter(o.db, IF o.result = Ok THEN m ELSE << >>,
                                        Len(data))
               /\ catalog' = IF o.result = Ok
                             THEN set_row_count(catalog, m, CountRows(o.db[m]))
                             ELSE catalog
               /\ last' = Call("save", name, data, o.result)
               /\ UNCHANGED <<clock, san, shown, session, given, extract, terminal, store>>

\* delete_table of the lifecycle manager: Storage.delete_table, then
\* catalog.unregister
MDeleteTable ==
    \E name \in MetaNames :
        LET o == delete_table(tables, name)
        IN  /\ tables' = o.db
            /\ committed' = IF o.result = Ok THEN o.db ELSE committed
            /\ okRows' = OkRowsAfter(o.db, << >>, 0)
            /\ catalog' = IF o.result = Ok
                          THEN unregister(catalog, validate_identifier(name))
                          ELSE catalog
            /\ last' = Call("delete_table", name, << >>, o.result)
            /\ UNCHANGED <<clock, san, shown, session, given, extract, terminal, store>>

\* describe: storage.update_description, a pass-through to the catalog
MDescribe ==
    \E table_name \in MetaNames, description \in Descriptions :
        /\ catalog' = set_description(catalog, table_name, description)
        /\ last' = Call("describe", table_name, << >>, Ok)
        /\ UNCHANGED <<tables, committed, okRows, clock, san, shown, session, given, extract, terminal, store>>

\* TablesEditCommand.execute with the choice "name": the table is looked up,
\* then _edit_name asks for the new name
MEditName ==
    \E table_name \in MetaNames, new_name_raw \in NewNames :
        IF catalog_get(catalog, table_name) = NotFound
        THEN /\ last' = Call("edit", table_name, new_name_raw, Abort)
             /\ UNCHANGED <<tables, committed, okRows, catalog, clock, san, shown, session, given, extract, terminal, store>>
        ELSE LET o == edit_name(tables, catalog, table_name, new_name_raw)
             IN  /\ tables' = o.db
                 /\ committed' = IF o.result = Ok THEN o.db ELSE committed
                 /\ okRows' = [k \in DOMAIN o.db |->
                                  IF o.result = Ok /\ k = sanitize_identifier(new_name_raw)
                                  THEN okRows[table_name] ELSE okRows[k]]
                 /\ catalog' = o.cat
                 /\ last' = Call("edit_name", table_name, new_name_raw, o.result)
                 /\ UNCHANGED <<clock, san, shown, session, given, extract, terminal, store>>

\* time passes
MTick ==
    /\ clock < MaxClock
    /\ clock' = clock + 1
    /\ last' = Call("tick", << >>, << >>, Ok)
    /\ UNCHANGED <<tables, committed, okRows, catalog, san, shown, session, given, extract, terminal, store>>

NextMeta ==
    MCreateTable \/ MSave \/ MDeleteTable \/ MDescribe \/ MEditName \/ MTick

SpecMeta == Init /\ [][NextMeta]_vars

C10_RenameConflictRefused ==
    [][ ( /\ last'.op = "edit_name"
          /\ last'.arg # last'.name
          /\ sanitize_identifier(last'.arg) \in DOMAIN catalog )
        => ( /\ last'.result = Abort
             /\ tables' = tables
             /\ committed' = committed
             /\ catalog' = catalog ) ]_vars

\* the rename of a table onto another table that holds rows and a
\* description has just been refused
C10_Witness ==
    /\ last.op = "edit_name" /\ last.result = Abort
    /\ last.name \in DOMAIN catalog
    /\ sanitize_identifier(last.arg) \in DOMAIN catalog \ {last.name}
    /\ catalog[sanitize_identifier(last.arg)].description = "d"
    /\ catalog[sanitize_identifier(last.arg)].count > 0

------------------------------------------------------------------------------
(* Search and the raw SQL passthrough *)

\* the text of a stored value, character by character
ValueText == ("x" :> <<"x">>) @@ ("y" :> <<"y">>)

RECURSIVE Like(_, _)
\* text LIKE pattern: "%" stands for any run of characters, "_" for any one
\* character, any other character for itself without regard to ASCII case
Like(p, text) ==
    IF p = << >> THEN text = << >>
    ELSE IF p[1] = "%"
    THEN IF Like(Tail(p), text) THEN TRUE
         ELSE IF text = << >> THEN FALSE ELSE Like(p, Tail(text))
    ELSE IF text = << >> THEN FALSE
    ELSE IF p[1] = "_" THEN Like(Tail(p), Tail(text))
    ELSE IF ToLower(p[1]) = ToLower(text[1]) THEN Like(Tail(p), Tail(text))
    ELSE FALSE

\* search_pattern = f"%{value}%": the value goes into the pattern as it is
SearchPattern(value) == <<"%">> \o value \o <<"%">>

\* "col" like ? for one row of table t: NULL matches nothing; a quoted name
\* that is no column of the table is read by SQLite as a string literal
CellMatches(t, row, col, value) ==
    LET cs == {c \in Range(t.cols) : Fold(c) = Fold(col)}
    IN  IF cs = {} THEN Like(SearchPattern(value), col)
        ELSE LET v == row[CHOOSE c \in cs : TRUE]
             IN  IF v = NULL THEN FALSE ELSE Like(SearchPattern(value), ValueText[v])

\* Storage.search_data: [result, found], found the mapping from table name to
\* its matching rows (tables without a matching row are left out).  None and
\* the empty string are the empty name: the code tests both for truth.
search_data(db, value, table_name, column_name) ==
    IF GetTablesRaises(db)
    THEN [result |-> IF \E m \in ListedNames(db) : validate_identifier(m) = Invalid
                     THEN ValueError ELSE OperationalError,
          found |-> << >>]
    ELSE
    LET listing == get_tables(db)
        named == {t \in listing : t.name = table_name}
        tables_to_search == IF table_name # << >> THEN named ELSE listing
        safe_column_name ==
            IF column_name # << >> THEN validate_identifier(column_name) ELSE << >>
        columns_to_search(t) ==
            IF column_name # << >>
            THEN IF safe_column_name \in Range(t.columns)
                 THEN <<safe_column_name>> ELSE << >>
            ELSE t.columns
        Raises(t) ==
            IF t.columns = << >> THEN FALSE
            ELSE IF column_name # << >> /\ safe_column_name = Invalid THEN TRUE
            ELSE IF column_name # << >> /\ table_name # << >>
                    /\ safe_column_name \notin Range(t.columns) THEN TRUE
            ELSE \E c \in Range(columns_to_search(t)) : validate_identifier(c) = Invalid
        Rows(t) ==
            LET q == db[StoredName(db, validate_identifier(t.name))]
                Hit(row) == \E c \in Range(columns_to_search(t)) :
                                CellMatches(q, row, validate_identifier(c), value)
            IN  IF t.columns = << >> \/ columns_to_search(t) = << >> THEN << >>
                ELSE SelectSeq(q.rows, Hit)
        rows == [t \in tables_to_search |-> Rows(t)]
    IN  IF table_name # << >> /\ named = {}
        THEN [result |-> ValueError, found |-> << >>]      \* table not found
        ELSE IF \E t \in tables_to_search : Raises(t)
        THEN [result |-> ValueError, found |-> << >>]
        ELSE [result |-> Ok,
              found |-> [n \in {t.name : t \in {u \in tables_to_search : rows[u] # << >>}}
                            |-> rows[CHOOSE t \in tables_to_search : t.name = n]]]

Star == "*"
Dot == "."

Target(table_name, column_name) ==
    [table_name |-> table_name, column_name |-> column_name]

\* (None, None): the global search
GlobalTarget == Target(<< >>, << >>)

\* the place of the first "." of a specifier that holds one
FirstDot(specifier) ==
    CHOOSE i \in 1..Len(specifier) :
        specifier[i] = Dot /\ \A j \in 1..(i - 1) : specifier[j] # Dot

RECURSIVE ParseSpecifiers(_)
\* the loop of _parse_search_targets over the specifiers ("*." without a
\* column is skipped)
ParseSpecifiers(specifiers) ==
    IF specifiers = << >> THEN << >>
    ELSE LET specifier == Head(specifiers)
             rest == ParseSpecifiers(Tail(specifiers))
         IN  IF specifier = << >> THEN rest
             ELSE IF Len(specifier) >= 2 /\ specifier[1] = Star /\ specifier[2] = Dot
             THEN IF Len(specifier) = 2 THEN rest
                  ELSE <<Target(<< >>, SubSeq(specifier, 3, Len(specifier)))>> \o rest
             ELSE IF Dot \in Range(specifier)
             THEN <<Target(SubSeq(specifier, 1, FirstDot(specifier) - 1),
                           SubSeq(specifier, FirstDot(specifier) + 1, Len(specifier)))>>
                      \o rest
             ELSE <<Target(specifier, << >>)>> \o rest

\* Storage._parse_search_targets, on the specifiers the comma-separated
\* argument splits into: no specifier, or none that is valid, is the global
\* search
parse_search_targets(specifiers) ==
    IF ParseSpecifiers(specifiers) = << >> THEN <<GlobalTarget>>
    ELSE ParseSpecifiers(specifiers)

\* setdefault(table, []).extend(rows) for every table of one target's results
Extend(aggregated, found) ==
    [n \in DOMAIN aggregated \cup DOMAIN found |->
        (IF n \in DOMAIN aggregated THEN aggregated[n] ELSE << >>)
            \o (IF n \in DOMAIN found THEN found[n] ELSE << >>)]

RECURSIVE Aggregate(_, _, _, _)
\* the loop of _search_command over the targets: [rows, errors], a target
\* that raises ValueError or OperationalError is reported and skipped
Aggregate(db, value, search_targets, acc) ==
    IF search_targets = << >> THEN acc
    ELSE LET target == Head(search_targets)
             r == search_data(db, value, target.table_name, target.column_name)
         IN  Aggregate(db, value, Tail(search_targets),
                       IF r.result = Ok
                       THEN [acc EXCEPT !.rows = Extend(@, r.found)]
                       ELSE [acc EXCEPT !.errors = Append(@, target)])

RECURSIVE UniqueRows(_)
\* the rows in order, without those equal to an earlier row in every column
UniqueRows(rows) ==
    IF rows = << >> THEN << >>
    ELSE LET front == UniqueRows(SubSeq(rows, 1, Len(rows) - 1))
             row == rows[Len(rows)]
         IN  IF row \in Range(front) THEN front ELSE Append(front, row)

RECURSIVE SumOfLengths(_)
SumOfLengths(results) ==
    IF DOMAIN results = {} THEN 0
    ELSE LET n == CHOOSE n \in DOMAIN results : TRUE
         IN  Len(results[n]) + SumOfLengths([k \in DOMAIN results \ {n} |-> results[k]])

\* a slip: the collected rows are shown without the de-duplication
search_command_no_dedup(db, value, specifiers) ==
    LET acc == Aggregate(db, value, parse_search_targets(specifiers),
                         [rows |-> << >>, errors |-> << >>])
    IN  [results |-> acc.rows, total |-> SumOfLengths(acc.rows), errors |-> acc.errors]

\* Storage._search_command: what it displays, [results, total, errors]
search_command(db, value, specifiers) ==
    LET acc == Aggregate(db, value, parse_search_targets(specifiers),
                         [rows |-> << >>, errors |-> << >>])
        results == [n \in DOMAIN acc.rows |-> UniqueRows(acc.rows[n])]
    IN  [results |-> results, total |-> SumOfLengths(results), errors |-> acc.errors]

\* a statement given to the sql command
CreateStmt(name, columns) == [kind |-> "create", name |-> name, columns |-> columns]
SelectStmt(name) == [kind |-> "select", name |-> name, columns |-> << >>]
Malformed == [kind |-> "malformed", name |-> << >>, columns |-> << >>]

\* cur.execute of a statement: [result, message, rows, db].  CREATE TABLE
\* takes the names as written, SELECT * reads a table, anything else here
\* is a syntax error.
execute(db, stmt) ==
    IF stmt.kind = "create"
    THEN IF TableExists(db, stmt.name)
         THEN [result |-> OperationalError, message |-> "table already exists",
               rows |-> << >>, db |-> db]
         ELSE IF IsReservedName(stmt.name)
         THEN [result |-> OperationalError, message |-> "object name reserved",
               rows |-> << >>, db |-> db]
         ELSE IF stmt.columns = << >> \/ HasDuplicates(stmt.columns)
         THEN [result |-> OperationalError, message |-> "bad column list",
               rows |-> << >>, db |-> db]
         ELSE [result |-> Ok, message |-> "", rows |-> << >>,
               db |-> db @@ (stmt.name :> [cols |-> stmt.columns, rows |-> << >>])]
    ELSE IF stmt.kind = "select"
    THEN IF TableExists(db, stmt.name)
         THEN [result |-> Ok, message |-> "",
               rows |-> db[StoredName(db, stmt.name)].rows, db |-> db]
         ELSE [result |-> OperationalError, message |-> "no such table",
               rows |-> << >>, db |-> db]
    ELSE [result |-> OperationalError, message |-> "syntax error",
          rows |-> << >>, db |-> db]

Success == "query executed successfully, no results to display"

\* a slip: the failure is swallowed and the statement reported as executed
execute_sql_swallow(db, stmt) ==
    LET o == execute(db, stmt)
    IN  [status |-> Ok, message |-> IF o.rows # << >> THEN "" ELSE Success,
         rows |-> o.rows, db |-> o.db, commit |-> o.result = Ok, attempts |-> 1]

\* Storage._execute_sql: one cur.execute, then the commit and the rows or the
\* success line; an sqlite3.Error is printed with the engine's message
execute_sql(db, stmt) ==
    LET o == execute(db, stmt)
    IN  IF o.result = Ok
        THEN [status |-> Ok, message |-> IF o.rows # << >> THEN "" ELSE Success,
              rows |-> o.rows, db |-> o.db, commit |-> TRUE, attempts |-> 1]
        ELSE [status |-> "error", message |-> o.message,
              rows |-> << >>, db |-> db, commit |-> FALSE, attempts |-> 1]

NameW == <<"w">>
NameZz == <<"z", "z">>
One == <<"1">>

SearchNames == {NameT, NameU}

SearchColLists == {<<A, B>>, <<A>>}

SearchBatches == { << (A :> "x") @@ (B :> "y") >> }

\* a table with a column named "1", a statement that does not parse, a query
Statements == {CreateStmt(NameW, <<One>>), Malformed, SelectStmt(NameT)}

SearchValues == {<<"X">>, <<"_">>}

\* "*." : a selector that names no column
SpecAnyNothing == <<Star, Dot>>

\* t.a, t.b, u.b, *.a, *.b, *.b1
SpecTA == <<"t", Dot, "a">>
SpecTB == <<"t", Dot, "b">>
SpecUB == <<"u", Dot, "b">>
SpecAnyA == <<Star, Dot, "a">>
SpecAnyB == <<Star, Dot, "b">>
SpecAnyB1 == <<Star, Dot, "b", "1">>

TargetLists ==
    { << >>, <<NameT>>, <<SpecTB>>, <<SpecAnyB>>, <<SpecAnyB1>>,
      <<NameT, SpecTA, SpecAnyA>>, <<NameZz, NameU>>, <<SpecUB, NameT>>,
      <<SpecAnyNothing>> }

SearchCreateTable == CreateTableIn(SearchNames, SearchColLists)

SearchSave == SaveIn(SearchNames, SearchBatches)

\* the search command
Search ==
    \E value \in SearchValues, specifiers \in TargetLists :
        LET o == search_command(tables, value, specifiers)
        IN  /\ shown' = [op |-> "search", results |-> o.results, total |-> o.total,
                         errors |-> o.errors, message |-> ""]
            /\ last' = Call("search", value, specifiers, Ok)
            /\ UNCHANGED <<tables, committed, okRows, catalog, clock, san, session, given, extract, terminal, store>>

\* the sql command
ExecuteSql ==
    \E stmt \in Statements :
        LET o == execute_sql(tables, stmt)
        IN  /\ tables' = o.db
            /\ committed' = IF o.commit THEN o.db ELSE committed
            /\ okRows' = OkRowsAfter(o.db, << >>, 0)
            /\ shown' = [op |-> "sql",
                         results |-> IF o.rows = << >> THEN << >>
                                     ELSE (stmt.name :> o.rows),
                         total |-> o.attempts, errors |-> << >>,
                         message |-> o.message]
            /\ last' = Call("sql", stmt.name, stmt, o.status)
            /\ UNCHANGED <<catalog, clock, san, session, given, extract, terminal, store>>

NextSearch == SearchCreateTable \/ SearchSave \/ ExecuteSql \/ Search

SpecSearch == Init /\ [][NextSearch]_vars

------------------------------------------------------------------------------
(* Claims about search and the sql command, under SpecSearch *)

\* C11: for an existing table t, the rows the global search reports for t
\* are the rows the search targeted at t reports for it: whenever the
\* targeted search shows t, the global search shows t with the same rows.
C11_GlobalCoversTargeted ==
    (last.op = "search" /\ Len(last.arg) = 1 /\ last.arg[1] \in DOMAIN tables)
        => LET t == last.arg[1]
               global == search_command(tables, last.name, << >>).results
           IN  /\ t \in DOMAIN shown.results
                      => (t \in DOMAIN global /\ global[t] = shown.results[t])
               /\ t \in DOMAIN global => t \in DOMAIN shown.results

\* the column a selector "*.col" names
StarColumn(specifiers) == SubSeq(specifiers[1], 3, Len(specifiers[1]))

IsStarSelector(specifiers) ==
    /\ Len(specifiers) = 1
    /\ Len(specifiers[1]) > 2
    /\ specifiers[1][1] = Star /\ specifiers[1][2] = Dot

\* C12: a search with the one selector "*.col" reports rows only from tables
\* that have a column named col, reports no table with an empty row list, and
\* reports no error.
C12_StarColumnOnlyTablesWithColumn ==
    (last.op = "search" /\ IsStarSelector(last.arg))
        => /\ shown.errors = << >>
           /\ \A n \in DOMAIN shown.results :
                  /\ shown.results[n] # << >>
                  /\ n \in DOMAIN tables
                  /\ StarColumn(last.arg) \in Range(tables[n].cols)

\* value is a substring of text, without regard to ASCII case
ContainsFold(text, value) ==
    \E i \in 1..(Len(text) - Len(value) + 1) :
        Fold(SubSeq(text, i, i + Len(value) - 1)) = Fold(value)

IsTableColumnSelector(specifiers) ==
    /\ Len(specifiers) = 1
    /\ specifiers[1][1] # Star
    /\ Dot \in Range(specifiers[1])

\* C13: a search with the one selector "table.column", for a table that has
\* the column, reports exactly the rows of that table whose value in that
\* column contains the search value as a case-insensitive substring, and no
\* row of another table.
C13_TableColumnExactly ==
    (last.op = "search" /\ IsTableColumnSelector(last.arg))
        => LET target == parse_search_targets(last.arg)[1]
               t == target.table_name
               c == target.column_name
           IN  (t \in DOMAIN tables /\ c \in Range(tables[t].cols))
                   => /\ DOMAIN shown.results \subseteq {t}
                      /\ \A row \in Range(tables[t].rows) :
                             (t \in DOMAIN shown.results
                                  /\ row \in Range(shown.results[t]))
                                 <=> (row[c] # NULL
                                          /\ ContainsFold(ValueText[row[c]], last.name))

\* C14: for every selector list the rows reported for a table hold no two
\* rows that are equal in every column, and the total reported is the sum of
\* the lengths of the per-table row lists.
C14_RowsDeduplicated ==
    last.op = "search"
        => /\ \A n \in DOMAIN shown.results :
                  \A i, j \in 1..Len(shown.results[n]) :
                      i # j => shown.results[n][i] # shown.results[n][j]
           /\ shown.total = SumOfLengths(shown.results)

\* overlapping selectors have queried a table that holds two equal rows
C14_Witness ==
    /\ last.op = "search" /\ Len(last.arg) = 3
    /\ NameT \in DOMAIN shown.results
    /\ Len(tables[NameT].rows) = 2
    /\ Len(shown.results[NameT]) = 1
    /\ shown.total >= 1

\* a table every column of which the search can query
IsHealthy(db, n) ==
    /\ validate_identifier(n) # Invalid
    /\ \A c \in Range(db[n].cols) : validate_identifier(c) # Invalid

HealthyTables(db) == [n \in {m \in DOMAIN db : IsHealthy(db, m)} |-> db[n]]

\* C15: a table whose query fails is skipped: every healthy table is
\* reported with exactly the rows the same search reports for it on the store
\* without the failing tables.
C15_FailingTableSkipped ==
    last.op = "search"
        => LET expected == search_command(HealthyTables(tables), last.name,
                                          last.arg).results
           IN  \A n \in DOMAIN HealthyTables(tables) :
                   /\ n \in DOMAIN expected <=> n \in DOMAIN shown.results
                   /\ n \in DOMAIN expected => expected[n] = shown.results[n]

\* C16: a statement that fails in the engine is reported as an error with
\* the engine's message, never as executed, after one attempt, and nothing is
\* committed.
C16_SqlFailureSurfaced ==
    [][ (last'.op = "sql" /\ execute(tables, last'.arg).result # Ok)
        => ( /\ last'.result = "error"
             /\ shown'.message = execute(tables, last'.arg).message
             /\ shown'.message # Success
             /\ shown'.total = 1
             /\ tables' = tables
             /\ committed' = committed ) ]_vars

\* a statement with a syntax error has been reported
C16_Witness ==
    /\ last.op = "sql" /\ last.result = "error"
    /\ last.arg = Malformed
    /\ shown.message = "syntax error"

------------------------------------------------------------------------------
(* The encryption envelope and the encrypted session *)

\* longest working copy, in bytes
MaxData == 1

\* most times the encryption setting is changed
MaxToggles == 3

\* latest time the terminal sees, in seconds
MaxTime == 5

\* most data rows of a CSV file
MaxCsvRows == 4

\* ExtractCommand.BATCH_SIZE, scaled down from 10_000 rows
BATCH_SIZE == 2

SALT_SIZE == 16
NONCE_SIZE == 16
TAG_SIZE == 16

\* the length of the nonce AES.new(key, AES.MODE_GCM) draws when none is given
GcmNonceLength == 16

\* a byte of an envelope: a random byte of the salt or the nonce (i its
\* value), or the i-th byte of the tag or of the ciphertext that AES-GCM
\* yields for term = <<key, nonce, data>>
Byte(kind, i, term) == [kind |-> kind, i |-> i, term |-> term]

\* get_random_bytes(n), drawn as r
RandomBytes(kind, n, r) == [i \in 1..n |-> Byte(kind, r, << >>)]

\* PBKDF2(password, salt, dkLen=KEY_SIZE, count=ITERATIONS)
PBKDF2(password, salt) == <<password, salt>>

\* cipher.encrypt_and_digest(data): [ciphertext, tag]
encrypt_and_digest(key, nonce, data) ==
    [ciphertext |-> [i \in 1..Len(data) |-> Byte("ct", i, <<key, nonce, data[i]>>)],
     tag |-> [i \in 1..TAG_SIZE |-> Byte("tag", i, <<key, nonce, data>>)]]

\* encrypt_bytes_to_file up to the write: the bytes salt + nonce + tag +
\* ciphertext, for the random salt and nonce drawn as s and n
envelope_bytes(data, password, s, n) ==
    LET salt == RandomBytes("salt", SALT_SIZE, s)
        key == PBKDF2(password, salt)
        nonce == RandomBytes("nonce", GcmNonceLength, n)
        c == encrypt_and_digest(key, nonce, data)
    IN  salt \o nonce \o c.tag \o c.ciphertext

Min(a, b) == IF a < b THEN a ELSE b

\* data[from:to] of Python, the offsets counted from 0
Slice(data, from, to) == SubSeq(data, Min(from, Len(data)) + 1, Min(to, Len(data)))

\* cipher.decrypt_and_verify(ciphertext, tag): the plaintext when the
\* ciphertext and the tag are those of one text under this key and nonce,
\* ValueError otherwise
decrypt_and_verify(key, nonce, ciphertext, tag) ==
    LET wellformed == \A i \in 1..Len(ciphertext) :
                          /\ ciphertext[i].kind = "ct"
                          /\ ciphertext[i].i = i
                          /\ ciphertext[i].term[1] = key
                          /\ ciphertext[i].term[2] = nonce
        plaintext == [i \in 1..Len(ciphertext) |-> ciphertext[i].term[3]]
    IN  IF wellformed
        THEN IF tag = encrypt_and_digest(key, nonce, plaintext).tag
             THEN [result |-> Ok, plaintext |-> plaintext]
             ELSE [result |-> ValueError, plaintext |-> << >>]
        ELSE [result |-> ValueError, plaintext |-> << >>]

\* the message of the ValueError that the reader raises itself
FailedToDecrypt == "failed to decrypt file, incorrect password or corrupted file"

\* the message of the ValueError that AES.new raises for nonce=b""
NonceEmpty == "Nonce cannot be empty"

\* the reader, splitting the nonce off with the length given: [result,
\* plaintext, message]. AES.new is called outside the try block, so its
\* ValueError leaves the reader as it is
DecryptSplit(exists, encrypted_data, password, nonce_size) ==
    IF ~exists THEN [result |-> Ok, plaintext |-> << >>, message |-> ""]
    ELSE LET salt == Slice(encrypted_data, 0, SALT_SIZE)
             nonce == Slice(encrypted_data, SALT_SIZE, SALT_SIZE + nonce_size)
             tag == Slice(encrypted_data, SALT_SIZE + nonce_size,
                          SALT_SIZE + nonce_size + TAG_SIZE)
             ciphertext == Slice(encrypted_data, SALT_SIZE + nonce_size + TAG_SIZE,
                                 Len(encrypted_data))
             o == decrypt_and_verify(PBKDF2(password, salt), nonce, ciphertext, tag)
         IN  IF Len(nonce) = 0
             THEN [result |-> ValueError, plaintext |-> << >>, message |-> NonceEmpty]
             ELSE IF o.result = Ok
             THEN [result |-> Ok, plaintext |-> o.plaintext, message |-> ""]
             ELSE [result |-> ValueError, plaintext |-> << >>,
                   message |-> FailedToDecrypt]

\* a slip: the reader takes the nonce to be the 12 bytes usual for GCM
decrypt_nonce_12(exists, encrypted_data, password) ==
    DecryptSplit(exists, encrypted_data, password, 12)

\* crypto.decrypt_file_to_temp: [result, plaintext], the plaintext the
\* content of the temporary file (empty when there is no file at db_path)
decrypt_file_to_temp(exists, encrypted_data, password) ==
    DecryptSplit(exists, encrypted_data, password, NONCE_SIZE)

\* a slip: the working copy is read from where the file position stands
read_without_seek(temp) == << >>

\* temp_db_file.seek(0); temp_db_file.read()
read_working_copy(temp) == temp

\* a slip: NamedTemporaryFile(delete=False)
KeepOnClose == FALSE

\* NamedTemporaryFile(delete=True): closing the file object deletes the file
DeleteOnClose == TRUE

\* what is left of the working copy once the file object is closed
AfterClose(temp) == IF DeleteOnClose THEN << >> ELSE temp

DataBytes == {0, 1}

WorkingCopies == UNION {[1..n -> DataBytes] : n \in 0..MaxData}

\* what main prints when no password is given
OperationCancelled == "operation cancelled"

\* the empty answer cancels the run
Passwords == {"pw", "other", ""}

Randoms == {0, 1}

\* where a write that fails stops: after no byte, after the salt and the nonce
PartialLengths == {0, SALT_SIZE + NONCE_SIZE}

SessionRest ==
    UNCHANGED <<tables, committed, okRows, last, catalog, clock, san, shown, given, extract, terminal, store>>

\* a slip: the working copy is read before the storage is closed
cleanup_reads_first == <<"reencrypt", "close_storage", "close_temp">>

\* the statements of cleanup, in their order
cleanup_body == <<"close_storage", "reencrypt", "close_temp">>

\* the statement cleanup is at
AtStatement(name) ==
    /\ session.phase \in {"ran", "written"}
    /\ session.todo # << >>
    /\ Head(session.todo) = name

\* main: the password is asked for, the file at db_path is decrypted into
\* the temporary working copy and the storage is opened on it
Open ==
    /\ session.phase \in {"closed", "exited", "aborted"}
    /\ \E password \in Passwords :
           LET o == decrypt_file_to_temp(session.exists, session.file, password)
           IN  session' =
                   IF password # "" /\ o.result = Ok
                   THEN [session EXCEPT !.phase = "open", !.password = password,
                                        !.error = "",
                                        !.conn = "open", !.todo = cleanup_body,
                                        !.temp_exists = TRUE, !.temp = o.plaintext,
                                        !.command_error = FALSE,
                                        !.before = [exists |-> session.exists,
                                                    file |-> session.file]]
                   ELSE [session EXCEPT !.phase = "aborted", !.password = password,
                                        !.error = IF password = ""
                                                  THEN OperationCancelled
                                                  ELSE o.message]
    /\ SessionRest

\* the command of this run: it leaves the working copy as its commits made
\* it, and returns or raises
RunCommand ==
    /\ session.phase = "open"
    /\ \E data \in WorkingCopies, raises \in BOOLEAN :
           session' = [session EXCEPT !.phase = "ran", !.temp = data,
                                      !.command_error = raises]
    /\ SessionRest

\* the first statement of cleanup: storage_instance.close()
CloseStorage ==
    /\ AtStatement("close_storage")
    /\ session' = [session EXCEPT !.conn = "closed", !.todo = Tail(session.todo)]
    /\ SessionRest

\* cleanup up to the write: the working copy is read and encrypted;
\* write_bytes opens db_path for writing, which empties it
Cleanup ==
    /\ AtStatement("reencrypt")
    /\ \E s \in Randoms, n \in Randoms, raises \in BOOLEAN :
           session' =
               IF raises
               THEN [session EXCEPT !.phase = "cleanup_failed",
                                    !.todo = << >>,
                                    !.closed = NoSession.closed]
               ELSE [session EXCEPT
                        !.phase = "writing",
                        !.todo = Tail(session.todo),
                        !.pending = envelope_bytes(read_working_copy(session.temp),
                                                   session.password, s, n),
                        !.exists = TRUE, !.file = << >>,
                        !.closed = NoSession.closed]
    /\ SessionRest

\* write_bytes writes the envelope and closes the file
WriteEnvelope ==
    /\ session.phase = "writing"
    /\ session' = [session EXCEPT !.phase = "written", !.file = session.pending,
                                  !.pending = << >>]
    /\ SessionRest

\* write_bytes fails partway (the disk is full, the write is interrupted)
WriteFails ==
    /\ session.phase = "writing"
    /\ \E k \in PartialLengths :
           session' = [session EXCEPT !.phase = "cleanup_failed",
                                      !.file = SubSeq(session.pending, 1, k),
                                      !.todo = << >>,
                                      !.pending = << >>]
    /\ SessionRest

\* the end of cleanup: temp_db_file.close()
CloseTemp ==
    /\ AtStatement("close_temp")
    /\ session' = [session EXCEPT
                      !.phase = "exited",
                      !.todo = << >>,
                      !.temp_exists = ~DeleteOnClose,
                      !.temp = AfterClose(session.temp),
                      !.command_error = FALSE,
                      !.closed = [ok |-> session.phase = "written", temp |-> session.temp,
                                  password |-> session.password]]
    /\ SessionRest

\* cleanup has raised before temp_db_file.close(): the process ends and the
\* temporary file object is finalised, which closes it
Finalize ==
    /\ session.phase = "cleanup_failed"
    /\ session' = [session EXCEPT !.phase = "exited",
                                  !.temp_exists = ~DeleteOnClose,
                                  !.temp = AfterClose(session.temp),
                                  !.command_error = FALSE]
    /\ SessionRest

NextSession ==
    Open \/ RunCommand \/ CloseStorage \/ Cleanup \/ WriteEnvelope \/ WriteFails \/ CloseTemp
        \/ Finalize

SpecSession == Init /\ [][NextSession]_vars

\* every run goes on until the process has ended
SpecSessionLive == Init /\ [][NextSession]_vars /\ WF_vars(NextSession)

\* C17: decrypting the envelope written for the data under a password, with
\* the same password, returns the data.
C17_RoundTrip ==
    session.phase = "written"
        => LET o == decrypt_file_to_temp(session.exists, session.file,
                                         session.password)
           IN  o.result = Ok /\ o.plaintext = session.temp

\* an envelope of a working copy that is not empty has been written
C17_Witness ==
    /\ session.phase = "written"
    /\ Len(session.temp) >= 1
    /\ Len(session.file) = SALT_SIZE + NONCE_SIZE + TAG_SIZE + Len(session.temp)

\* C18: after a close that succeeded, opening the store with the same
\* password yields the working copy as it was at the close.
C18_PersistsAcrossSessions ==
    [][ ( /\ session.phase = "exited"
          /\ session.closed.ok
          /\ session'.phase \in {"open", "aborted"}
          /\ session'.password = session.closed.password )
        => ( /\ session'.phase = "open"
             /\ session'.temp_exists
             /\ session'.temp = session.closed.temp ) ]_vars

\* a store closed with a working copy that is not empty has been opened again
C18_Witness ==
    /\ session.phase = "open"
    /\ session.closed.ok
    /\ session.password = session.closed.password
    /\ Len(session.temp) >= 1
    /\ session.before.exists

\* C19: when the re-encryption at close fails, the file at db_path still
\* holds the envelope it held before.
C19_FailedCloseKeepsEnvelope ==
    (session.phase = "cleanup_failed" /\ session.before.exists)
        => /\ session.exists
           /\ session.file = session.before.file

C21_DecryptionFailedUniform ==
    [][ (session'.phase = "aborted" /\ session'.password # "")
        => ( /\ session'.error = FailedToDecrypt
             /\ session'.exists = session.exists
             /\ session'.file = session.file
             /\ ~session'.temp_exists ) ]_vars

------------------------------------------------------------------------------
(* Tables under distinct names *)

FrameNames == {NameT, NameT1, NameU}

FrameBatches == { << (A :> "x") >> }

FrameRest == UNCHANGED <<catalog, clock, san, shown, session, extract, terminal, store>>

\* create_table; a name whose call succeeded is remembered
FrameCreateTable ==
    \E name \in FrameNames, columns \in ColLists :
        /\ CreateTableStep(name, columns)
        /\ given' = IF last'.result = Ok THEN given \cup {name} ELSE given
        /\ FrameRest

FrameSave == SaveIn(FrameNames, FrameBatches)

\* delete_table; the name whose table was asked to go is forgotten
FrameDeleteTable ==
    \E name \in FrameNames :
        /\ DeleteTableStep(name)
        /\ given' = IF last'.result = Ok THEN given \ {name} ELSE given
        /\ FrameRest

NextFrame == FrameCreateTable \/ FrameSave \/ FrameDeleteTable

SpecFrame == Init /\ [][NextFrame]_vars

\* the table of the store that a name given to create_table stands for
TableFor(db, name) == Lookup(db, validate_identifier(name))

\* C23: two distinct names given to create_table stand for two distinct
\* tables, and save or delete_table under one name changes neither the rows
\* nor the existence of the table of another name.
C23_DistinctNamesDistinctTables ==
    [][ /\ \A a \in given', b \in given' :
               a # b => /\ TableFor(tables', a) # {}
                        /\ TableFor(tables', b) # {}
                        /\ TableFor(tables', a) # TableFor(tables', b)
        /\ last'.op \in {"save", "delete_table"}
            => \A a \in given \ {last'.name} :
                   TableFor(tables, a) # {}
                       => /\ TableFor(tables', a) = TableFor(tables, a)
                          /\ \A m \in TableFor(tables, a) : tables'[m] = tables[m]
      ]_vars

------------------------------------------------------------------------------
(* More claims about search, under SpecSearch *)

\* C24: a search whose target argument holds selectors, none of them valid,
\* searches no table: it reports no rows.
C24_InvalidSelectorsSearchNothing ==
    (last.op = "search" /\ last.arg # << >> /\ ParseSpecifiers(last.arg) = << >>)
        => (shown.results = << >> /\ shown.total = 0)

\* C29: for a single selector, the rows reported for a table are as many as
\* the stored rows of the table that match, rows equal in every column
\* counted each.
C29_EveryMatchingRowReported ==
    (last.op = "search" /\ Len(last.arg) = 1 /\ Len(ParseSpecifiers(last.arg)) = 1)
        => LET target == ParseSpecifiers(last.arg)[1]
               o == search_data(tables, last.name, target.table_name,
                                target.column_name)
           IN  o.result = Ok
                   => \A n \in DOMAIN o.found :
                          /\ n \in DOMAIN shown.results
                          /\ Len(shown.results[n]) = Len(o.found[n])

------------------------------------------------------------------------------
(* The purge commands and their confirmation prompt *)

Space == " "

RECURSIVE StripLeft(_)
StripLeft(text) ==
    IF text # << >> /\ Head(text) = Space THEN StripLeft(Tail(text)) ELSE text

RECURSIVE StripRight(_)
StripRight(text) ==
    IF text # << >> /\ text[Len(text)] = Space
    THEN StripRight(SubSeq(text, 1, Len(text) - 1)) ELSE text

\* str.strip()
Strip(text) == StripRight(StripLeft(text))

\* what the user gives to a prompt: a line of text, or no line at all
\* (Ctrl+C, end of input)
Typed(text) == [kind |-> "text", text |-> text]

Cancelled == [kind |-> "cancelled", text |-> << >>]

TextY == <<"y">>
TextYes == <<"y", "e", "s">>
TextN == <<"n">>
TextNo == <<"n", "o">>

Answers ==
    { Typed(TextY), Typed(<<"Y">>), Typed(TextYes), Typed(TextN),
      Typed(<<Space, "N", "o">>), Typed(<< >>), Typed(<<"m", "a", "y", "b", "e">>),
      Cancelled }

NoAnswer == "None"

RECURSIVE FirstChoice(_, _)
\* the keys of a confirm prompt in turn: y and n answer, any other key is
\* ignored, the end of the line takes the default
FirstChoice(text, default) ==
    IF text = << >> THEN default
    ELSE IF ToLower(Head(text)) = "y" THEN TRUE
    ELSE IF ToLower(Head(text)) = "n" THEN FALSE
    ELSE FirstChoice(Tail(text), default)

\* questionary.confirm(..., default).ask(): TRUE or FALSE as strings, and
\* None when the prompt is cancelled
confirm(answer, default) ==
    IF answer.kind = "cancelled" THEN NoAnswer
    ELSE IF FirstChoice(answer.text, default) THEN "True" ELSE "False"

Purged == "purged"
PurgeCancelled == "purge cancelled"
Interrupted == "interrupted"

\* Storage._purge_database_command: whether the answer lets the purge proceed
storage_purge_proceeds(answer) ==
    Fold(Strip(answer.text)) \notin {TextN, TextNo}

\* Saver._purge_database_command: whether the answer lets the purge proceed
saver_purge_proceeds(answer) == Strip(Fold(answer.text)) = TextY

\* the purge command of the command line: whether the answer lets it proceed
cli_purge_proceeds(answer) == confirm(answer, FALSE) = "True"

\* a purge command on the store: input() raises when no line is given;
\* otherwise the purge runs or is cancelled as the answer decides
PurgeCommandStep(op, answer, proceeds) ==
    IF answer.kind = "text" /\ proceeds
    THEN LET o == purge_database(tables)
         IN  /\ tables' = o.db
             /\ committed' = IF o.result = Ok /\ TableNames(tables) # {}
                             THEN o.db ELSE committed
             /\ okRows' = OkRowsAfter(o.db, << >>, 0)
             /\ last' = Call(op, answer.text, answer.kind,
                             IF o.result = Ok THEN Purged ELSE o.result)
             /\ MetaUnchanged
    ELSE /\ last' = Call(op, answer.text, answer.kind,
                         IF answer.kind = "text" THEN PurgeCancelled ELSE Interrupted)
         /\ UNCHANGED <<tables, committed, okRows>>
         /\ MetaUnchanged

StoragePurgeCommand ==
    \E answer \in Answers :
        PurgeCommandStep("storage.purge", answer, storage_purge_proceeds(answer))

SaverPurgeCommand ==
    \E answer \in Answers :
        PurgeCommandStep("saver.purge", answer, saver_purge_proceeds(answer))

CliPurgeCommand ==
    \E answer \in Answers :
        PurgeCommandStep("cli.purge", answer, cli_purge_proceeds(answer))

PurgeNames == {NameT, NameU}

PurgeCreateTable == CreateTableIn(PurgeNames, ColLists)

PurgeSave == SaveIn(PurgeNames, FrameBatches)

NextPurge ==
    PurgeCreateTable \/ PurgeSave \/ StoragePurgeCommand \/ SaverPurgeCommand
        \/ CliPurgeCommand

SpecPurge == Init /\ [][NextPurge]_vars

PurgeOps == {"storage.purge", "saver.purge", "cli.purge"}

\* an answer that says yes
Affirmative(kind, text) ==
    kind = "text" /\ Fold(Strip(text)) \in {TextY, TextYes}

\* C27: a purge command deletes tables only on an affirmative answer to its
\* prompt; on any other answer (an empty line, other text, a cancelled
\* prompt) every table is left as it is.
C27_PurgeOnlyWhenConfirmed ==
    [][ (last'.op \in PurgeOps /\ ~Affirmative(last'.arg, last'.name))
            => (tables' = tables /\ committed' = committed) ]_vars

------------------------------------------------------------------------------
(* The extract command: the rows of a CSV file, saved in batches *)

\* the headers of the file, and the place of each in a row
H1 == "h1"
H2 == "h2"
header_to_idx == (H1 :> 0) @@ (H2 :> 1)

\* the selections of columns: the second column as b, or both as a and b
ColumnMaps == { (H2 :> B), (H1 :> A) @@ (H2 :> B) }

\* the filters: none, or column b must hold an x
FilterSets == { << >>, (B :> {<<"x">>}) }

\* the data rows a file is made of: an empty row, a row of one field, two
\* rows of two fields
CsvRows == { << >>, <<"y">>, <<"y", "x">>, <<"x", "y">> }

CsvFiles == UNION {[1..n -> CsvRows] : n \in 0..MaxCsvRows}

\* re.search(p, text) for a pattern without special characters
ReSearch(p, text) ==
    \E k \in 0..(Len(text) - Len(p)) : SubSeq(text, k + 1, k + Len(p)) = p

\* the loop over column_map: the fields of the row the selection reaches
RowData(column_map, row_parts) ==
    LET reached == {h \in DOMAIN column_map : header_to_idx[h] < Len(row_parts)}
    IN  [c \in {column_map[h] : h \in reached} |->
            row_parts[header_to_idx[CHOOSE h \in reached : column_map[h] = c] + 1]]

\* ExtractCommand._row_is_filtered_out; a column the row lacks reads as ""
row_is_filtered_out(row_data, filters) ==
    \E col \in DOMAIN filters :
        LET value_to_check == IF col \in DOMAIN row_data
                              THEN ValueText[row_data[col]] ELSE << >>
        IN  \E p \in filters[col] : ~ReSearch(p, value_to_check)

\* a slip: the batch is not cleared after it is saved
SaveBatchKeeps(e) ==
    [e EXCEPT !.calls = Append(@, e.batch),
              !.total_saved = @ + Len(e.batch)]

\* self.storage.save(table_name, batch); total_saved += len(batch);
\* batch.clear()
SaveBatch(e) ==
    [e EXCEPT !.calls = Append(@, e.batch),
              !.total_saved = @ + Len(e.batch),
              !.batch = << >>]

\* one turn of the loop over the rows
ExtractRowOf(e) ==
    LET row_parts == e.rows[e.i]
        row_data == RowData(e.column_map, row_parts)
        next == [e EXCEPT !.i = @ + 1]
    IN  IF row_parts = << >> THEN next
        ELSE IF DOMAIN row_data = {} THEN next
        ELSE IF row_is_filtered_out(row_data, e.filters)
        THEN [next EXCEPT !.filtered_out_count = @ + 1]
        ELSE LET added == [next EXCEPT !.batch = Append(@, row_data)]
             IN  IF Len(added.batch) < BATCH_SIZE THEN added ELSE SaveBatch(added)

ExtractRest ==
    UNCHANGED <<okRows, catalog, clock, san, shown, session, given, terminal, store>>

RECURSIVE Listed(_)
\* list(column_map.values()), in the order of the headers
Listed(column_map) ==
    IF DOMAIN column_map = {} THEN << >>
    ELSE LET h == CHOOSE h \in DOMAIN column_map :
                      \A g \in DOMAIN column_map : header_to_idx[h] <= header_to_idx[g]
         IN  <<column_map[h]>> \o Listed([g \in DOMAIN column_map \ {h} |-> column_map[g]])

\* the store after the batches the step has passed to save
StoreAfter(e, after) ==
    IF Len(after.calls) > Len(e.calls)
    THEN save(tables, NameT, after.calls[Len(after.calls)])
    ELSE [result |-> Ok, db |-> tables, commit |-> FALSE]

\* the user has confirmed: the table is created and the file is opened
ExtractStart ==
    /\ extract.phase = "idle"
    /\ \E rows \in CsvFiles, column_map \in ColumnMaps, filters \in FilterSets :
           LET o == create_table(tables, NameT, Listed(column_map))
           IN  /\ tables' = o.db
               /\ committed' = o.db
               /\ last' = Call("extract", NameT, << >>, o.result)
               /\ extract' = [NoExtract EXCEPT !.phase = "rows", !.rows = rows,
                                               !.column_map = column_map,
                                               !.filters = filters]
    /\ ExtractRest

\* the next row of the file
ExtractRow ==
    /\ extract.phase = "rows"
    /\ extract.i <= Len(extract.rows)
    /\ LET after == ExtractRowOf(extract)
           o == StoreAfter(extract, after)
       IN  /\ extract' = after
           /\ tables' = o.db
           /\ committed' = IF o.commit THEN o.db ELSE committed
           /\ last' = Call("extract", NameT, extract.rows[extract.i], o.result)
    /\ ExtractRest

\* the end of the file: what is left of the batch is saved, the total is
\* reported
ExtractFinish ==
    /\ extract.phase = "rows"
    /\ extract.i > Len(extract.rows)
    /\ LET after == IF extract.batch # << >> THEN SaveBatch(extract) ELSE extract
           o == StoreAfter(extract, after)
       IN  /\ extract' = [after EXCEPT !.phase = "done"]
           /\ tables' = o.db
           /\ committed' = IF o.commit THEN o.db ELSE committed
           /\ last' = Call("extract", NameT, << >>, o.result)
    /\ ExtractRest

NextExtract == ExtractStart \/ ExtractRow \/ ExtractFinish

SpecExtract == Init /\ [][NextExtract]_vars

RECURSIVE Flatten(_)
\* the rows of a sequence of batches, in order
Flatten(calls) ==
    IF calls = << >> THEN << >> ELSE Head(calls) \o Flatten(Tail(calls))

RECURSIVE Eligible(_, _, _)
\* the rows of a file that are to be saved, in file order: not empty, reaching
\* a selected column, passing the filters
Eligible(rows, column_map, filters) ==
    IF rows = << >> THEN << >>
    ELSE LET d == RowData(column_map, Head(rows))
             rest == Eligible(Tail(rows), column_map, filters)
         IN  IF Head(rows) # << >> /\ DOMAIN d # {} /\ ~row_is_filtered_out(d, filters)
             THEN <<d>> \o rest ELSE rest

\* C28: the rows of the file that are to be saved are passed to save exactly
\* once and in file order, wherever the batches end, and total_saved is
\* their number.
C28_EveryRowSavedOnce ==
    /\ extract.phase = "rows"
        => Flatten(extract.calls) \o extract.batch
               = Eligible(SubSeq(extract.rows, 1, extract.i - 1),
                          extract.column_map, extract.filters)
    /\ extract.phase = "done"
        => /\ Flatten(extract.calls)
                  = Eligible(extract.rows, extract.column_map, extract.filters)
           /\ extract.total_saved = Len(Flatten(extract.calls))
           /\ \A k \in 1..Len(extract.calls) : extract.calls[k] # << >>

\* a file whose rows to be saved fill whole batches, with rows skipped
C28_Witness ==
    /\ extract.phase = "done"
    /\ extract.total_saved >= BATCH_SIZE
    /\ extract.total_saved = BATCH_SIZE * Len(extract.calls)
    /\ Len(extract.rows) > extract.total_saved
    /\ extract.filtered_out_count >= 1

------------------------------------------------------------------------------
(* The terminal loop and its exit by two interrupts *)

\* Terminal._confirm_exit_timeout_s
confirm_exit_timeout_s == 2

TerminalRest ==
    UNCHANGED <<tables, committed, okRows, last, catalog, clock, san, shown,
                session, given, extract, store>>

\* time passes, wherever the loop stands
Tick ==
    /\ terminal.pc # "exited"
    /\ terminal.now < MaxTime
    /\ terminal' = [terminal EXCEPT !.now = @ + 1]
    /\ TerminalRest

\* the head of the loop: it ends when _should_exit is set; otherwise a
\* confirmation older than the timeout is dropped and the prompt is shown
LoopTop ==
    /\ terminal.pc = "top"
    /\ terminal' = IF terminal.should_exit
               THEN [terminal EXCEPT !.pc = "exited", !.event = "bye"]
               ELSE IF terminal.confirm_exit
                       /\ terminal.now - terminal.confirm_time > confirm_exit_timeout_s
               THEN [terminal EXCEPT !.pc = "input", !.confirm_exit = FALSE,
                                 !.event = "exit cancelled"]
               ELSE [terminal EXCEPT !.pc = "input", !.event = "prompt"]
    /\ TerminalRest

\* a line is entered at the prompt and executed
InputLine ==
    /\ terminal.pc = "input"
    /\ terminal' = [terminal EXCEPT !.pc = "top", !.confirm_exit = FALSE,
                            !.event = "command"]
    /\ TerminalRest

\* Ctrl+C or the end of input at the prompt
InputInterrupt ==
    /\ terminal.pc = "input"
    /\ terminal' = IF terminal.confirm_exit
               THEN [terminal EXCEPT !.pc = "top", !.should_exit = TRUE,
                                 !.event = "interrupt"]
               ELSE [terminal EXCEPT !.pc = "top", !.confirm_exit = TRUE,
                                 !.confirm_time = terminal.now,
                                 !.event = "interrupt"]
    /\ TerminalRest

NextTerminal == Tick \/ LoopTop \/ InputLine \/ InputInterrupt

SpecTerminal == Init /\ [][NextTerminal]_vars

\* C30: the loop exits on an interrupt only when that interrupt is the second
\* one and arrives within the confirmation window after the first, no command
\* entered in between; a second interrupt after the window does not exit.
C30_ExitOnlyWithinWindow ==
    [][ (terminal'.should_exit /\ ~terminal.should_exit)
            => ( /\ terminal'.event = "interrupt"
                 /\ terminal.confirm_exit
                 /\ terminal.now - terminal.confirm_time <= confirm_exit_timeout_s ) ]_vars

------------------------------------------------------------------------------
(* The settings commands and the store file they encrypt and decrypt *)

\* the bytes of a store file in plaintext: long enough to be split into a
\* salt and a nonce when it is read as an envelope
PlainStore == [i \in 1..(SALT_SIZE + 1) |-> Byte("plain", i, << >>)]

EnvelopeHeader == SALT_SIZE + NONCE_SIZE + TAG_SIZE

\* the bytes have the layout of an envelope written by encrypt_bytes_to_file
IsEnvelope(data) ==
    /\ Len(data) >= EnvelopeHeader
    /\ data[1].kind = "salt"
    /\ \A i \in (EnvelopeHeader + 1)..Len(data) : data[i].kind = "ct"

\* what an envelope was made from
Inner(data) == [i \in 1..(Len(data) - EnvelopeHeader) |-> data[EnvelopeHeader + i].term[3]]

RECURSIVE Layers(_)
\* how many times the bytes have been encrypted
Layers(data) == IF IsEnvelope(data) THEN 1 + Layers(Inner(data)) ELSE 0

\* crypto.encrypt_file: the file after the call
encrypt_file(file, password, s, n) ==
    IF ~file.exists THEN file
    ELSE [exists |-> TRUE, data |-> envelope_bytes(file.data, password, s, n)]

\* crypto.decrypt_file: [result, file]; the file is written only after the
\* tag has verified
decrypt_file(file, password) ==
    IF ~file.exists THEN [result |-> Ok, file |-> file]
    ELSE LET o == DecryptSplit(TRUE, file.data, password, NONCE_SIZE)
         IN  IF o.result = Ok
             THEN [result |-> Ok, file |-> [exists |-> TRUE, data |-> o.plaintext]]
             ELSE [result |-> ValueError, file |-> file]

\* main: the path of the store, the default one when none is set
StorePath(st) == IF st.db_path = "" THEN DefaultPath ELSE st.db_path

\* a slip: the setting is saved whether the operation succeeded or not
saved_encryption_always(old, enable, succeeded) == enable

\* settings.encryption = enable; save_config(settings), reached only when
\* the operation has not raised
saved_encryption(old, enable, succeeded) == IF succeeded THEN enable ELSE old

\* what the user types at a password prompt: the password of the stores, a
\* wrong one, nothing; a store is never given the wrong one as its password
SettingsPasswords == {"pw", "other", ""}
NewPasswords == {"pw", ""}

SettingsRest ==
    UNCHANGED <<tables, committed, okRows, catalog, clock, san, shown, session,
                given, extract, terminal>>

\* settings dbfile <path>
Dbfile ==
    /\ \E db_path \in {PathOne, PathTwo} :
           /\ store' = [store EXCEPT !.db_path = db_path, !.decrypt_input = "none"]
           /\ last' = Call("settings.dbfile", << >>, db_path, Ok)
    /\ SettingsRest

\* settings encryption <enable>
Encryption ==
    /\ \E enable \in BOOLEAN :
       \E password \in IF enable THEN NewPasswords ELSE SettingsPasswords :
           LET file == store.files[StorePath(store)]
               call(result) == Call("settings.encryption", << >>, enable, result)
           IN  IF store.encryption = enable
               THEN /\ last' = call("already")
                    /\ store' = [store EXCEPT !.decrypt_input = "none"]
               ELSE IF store.db_path = ""
               THEN /\ last' = call(Abort)
                    /\ store' = [store EXCEPT !.decrypt_input = "none"]
               ELSE IF ~file.exists
               THEN /\ store.toggles < MaxToggles
                    /\ last' = call("saved")
                    /\ store' = [store EXCEPT !.encryption = enable,
                                              !.decrypt_input = "none",
                                              !.toggles = @ + 1]
               ELSE IF password = ""
               THEN /\ last' = call(OperationCancelled)
                    /\ store' = [store EXCEPT !.decrypt_input = "none"]
               ELSE IF enable
               THEN /\ store.toggles < MaxToggles
                    /\ last' = call(Ok)
                    /\ store' = [store EXCEPT
                           !.files[store.db_path] = encrypt_file(file, password, 0, 0),
                           !.encryption = saved_encryption(store.encryption, TRUE, TRUE),
                           !.decrypt_input = "none",
                           !.toggles = @ + 1]
               ELSE LET o == decrypt_file(file, password)
                    IN  /\ store.toggles < MaxToggles
                        /\ last' = call(o.result)
                        /\ store' = [store EXCEPT
                               !.files[store.db_path] = o.file,
                               !.encryption = saved_encryption(store.encryption, FALSE,
                                                               o.result = Ok),
                               !.decrypt_input = IF IsEnvelope(file.data)
                                                 THEN "envelope" ELSE "plain",
                               !.toggles = IF o.result = Ok THEN @ + 1 ELSE @]
    /\ SettingsRest

\* one run of a command on the store, from the opening to the end of cleanup:
\* with encryption the file is decrypted into the working copy, which the
\* command leaves as a store in plaintext and cleanup encrypts to the path;
\* without, the engine opens the file itself
RunSession ==
    /\ \E password \in IF store.files[StorePath(store)].exists
                        THEN SettingsPasswords ELSE NewPasswords :
           LET db_path == StorePath(store)
               file == store.files[db_path]
               call(result) == Call("session", << >>, << >>, result)
               o == decrypt_file_to_temp(file.exists, file.data, password)
           IN  IF store.encryption
               THEN IF password = ""
                    THEN /\ last' = call(OperationCancelled)
                         /\ store' = [store EXCEPT !.decrypt_input = "none"]
                    ELSE IF o.result # Ok
                    THEN /\ last' = call(Abort)
                         /\ store' = [store EXCEPT
                                !.decrypt_input = IF IsEnvelope(file.data)
                                                  THEN "envelope" ELSE "plain"]
                    ELSE /\ last' = call(Ok)
                         /\ store' = [store EXCEPT
                                !.files[db_path] =
                                    [exists |-> TRUE,
                                     data |-> envelope_bytes(PlainStore, password, 0, 0)],
                                !.decrypt_input = IF file.exists THEN "envelope"
                                                  ELSE "none"]
               ELSE IF file.exists /\ file.data # PlainStore
               THEN /\ last' = call("file is not a database")
                    /\ store' = [store EXCEPT !.decrypt_input = "none"]
               ELSE /\ last' = call(Ok)
                    /\ store' = [store EXCEPT
                           !.files[db_path] = [exists |-> TRUE, data |-> PlainStore],
                           !.decrypt_input = "none"]
    /\ SettingsRest

NextSettings == Dbfile \/ Encryption \/ RunSession

SpecSettings == Init /\ [][NextSettings]_vars

\* C25: the saved encryption setting is true exactly when the file at the
\* configured path, if there is one, is an envelope; no file is encrypted
\* twice and no plaintext file is handed to the decrypt step.
C25_SettingMatchesFile ==
    /\ store.files[StorePath(store)].exists
           => (store.encryption <=> Layers(store.files[StorePath(store)].data) = 1)
    /\ \A q \in StorePaths : Layers(store.files[q].data) <= 1
    /\ store.decrypt_input # "plain"

\* C26: when settings encryption on an existing store file fails on a wrong
\* password or is cancelled by an empty one, the files and the saved setting
\* are as they were.
C26_FailedToggleChangesNothing ==
    [][ ( /\ last'.op = "settings.encryption"
          /\ last'.result \in {ValueError, OperationCancelled} )
        => ( /\ store'.files = store.files
             /\ store'.encryption = store.encryption
             /\ store'.db_path = store.db_path ) ]_vars

\* disabling has failed on the wrong password for an envelope
C26_Witness ==
    /\ last.op = "settings.encryption"
    /\ last.result = ValueError
    /\ last.arg = FALSE
    /\ store.encryption
    /\ Layers(store.files[StorePath(store)].data) = 1
    /\ store.decrypt_input = "envelope"

==============================================================================
